---- MODULE Spec2Model ----
(***************************************************************************)
(* Model of src/main.py: the Instagram profile logger.                     *)
(*                                                                         *)
(* One invocation of the script (the __main__ block calling                *)
(* scrape_and_log) is a process that walks through the function in source  *)
(* order.  The durable files (last_pic_url.txt, profile_log.csv,           *)
(* profile_pics/, debug_artifacts/) are the global state; everything the   *)
(* browser, the network and the file system answer is an input chosen      *)
(* where the code asks for it.                                             *)
(*                                                                         *)
(* Python strings are sequences of one-character strings; None is the      *)
(* one-element sequence <<"None">>, which no string of the model equals.   *)
(***************************************************************************)
EXTENDS Integers, Sequences, FiniteSets, TLC

\* Number of invocations of the script that the model follows.
MaxRuns == 2

Procs == {1, 2}

None == <<"None">>

\* Python truthiness of an Optional[str]: None and "" are falsy.
Truthy(s) == s # None /\ s # <<>>

\* An `or` that prefers its second operand.
Or_prefers_second(a, b) == IF Truthy(b) THEN b ELSE a

\* Python's `a or b`.
Or(a, b) == IF Truthy(a) THEN a ELSE b

----------------------------------------------------------------------------
\* String helpers (str.strip, str.lstrip, str.find, str.replace).

Whitespace == {" "}

RECURSIVE lstrip(_)
lstrip(s) ==
  IF s # <<>> /\ Head(s) \in Whitespace THEN lstrip(Tail(s)) ELSE s

RECURSIVE rstrip(_)
rstrip(s) ==
  IF s # <<>> /\ s[Len(s)] \in Whitespace THEN rstrip(SubSeq(s, 1, Len(s) - 1)) ELSE s

strip(s) == rstrip(lstrip(s))

\* Index of the first occurrence of character c in s, 0 when there is none.
Find(s, c) ==
  IF \E i \in 1..Len(s) : s[i] = c
  THEN CHOOSE i \in 1..Len(s) : s[i] = c /\ \A j \in 1..(i - 1) : s[j] # c
  ELSE 0

----------------------------------------------------------------------------
\* urllib.parse as used by normalize_url.  The URLs of the model are written
\* over lower-case letters, ':', '/', ';', '?', '#' and ' '; they contain no
\* tab or newline (which urlsplit removes), no '[' or ']' (on which it may raise
\* ValueError) and no character outside ASCII.

\* The characters a scheme is made of; all of them are letters.
scheme_chars == {"a", "b", "c", "h", "t", "p"}

Http == <<"h", "t", "t", "p">>

\* The schemes of the model that urllib lists in uses_netloc and uses_params;
\* both lists hold the empty scheme.
uses_netloc == {<<>>, Http}
uses_params == {<<>>, Http}

\* Index of the first character of s at or after position from that is in cs,
\* 0 when there is none.
FindAny(s, cs, from) ==
  IF \E i \in from..Len(s) : s[i] \in cs
  THEN CHOOSE i \in from..Len(s) : s[i] \in cs /\ \A j \in from..(i - 1) : s[j] \notin cs
  ELSE 0

\* Index of the last occurrence of character c in s, 0 when there is none.
RFind(s, c) ==
  IF \E i \in 1..Len(s) : s[i] = c
  THEN CHOOSE i \in 1..Len(s) : s[i] = c /\ \A j \in (i + 1)..Len(s) : s[j] # c
  ELSE 0

\* _splitnetloc(url, 2): the text between the leading "//" and the first of
\* '/', '?', '#' is the netloc, the rest stays.
_splitnetloc(url) ==
  LET d == FindAny(url, {"/", "?", "#"}, 3)
  IN IF d = 0 THEN <<SubSeq(url, 3, Len(url)), <<>>>>
     ELSE <<SubSeq(url, 3, d - 1), SubSeq(url, d, Len(url))>>

\* The scheme of urlsplit: the text before the first ':' when it is not empty
\* and made of scheme characters; <<scheme, rest>>.
_splitscheme(url) ==
  LET i == Find(url, ":")
  IN IF i > 1 /\ \A k \in 1..(i - 1) : url[k] \in scheme_chars
     THEN <<SubSeq(url, 1, i - 1), SubSeq(url, i + 1, Len(url))>>
     ELSE <<<<>>, url>>

\* The netloc of urlsplit: taken only when the rest starts with "//".
_netloc(url) ==
  IF Len(url) >= 2 /\ url[1] = "/" /\ url[2] = "/"
  THEN _splitnetloc(url) ELSE <<<<>>, url>>

\* url.split(c, 1) when c is in url, <<url, "">> otherwise.
Split1(url, c) ==
  LET h == Find(url, c)
  IN IF h > 0 THEN <<SubSeq(url, 1, h - 1), SubSeq(url, h + 1, Len(url))>>
     ELSE <<url, <<>>>>

\* urlsplit: leading blanks dropped, then scheme, netloc, fragment, query.
urlsplit(url) ==
  LET sch  == _splitscheme(lstrip(url))
      net  == _netloc(sch[2])
      frag == Split1(net[2], "#")
      qry  == Split1(frag[1], "?")
  IN [scheme |-> sch[1], netloc |-> net[1], path |-> qry[1],
      query |-> qry[2], fragment |-> frag[2]]

\* _splitparams: the ';' that starts the parameters of the last path segment.
_splitparams(url) ==
  LET i == IF Find(url, "/") > 0 THEN FindAny(url, {";"}, RFind(url, "/"))
           ELSE Find(url, ";")
  IN IF i = 0 THEN <<url, <<>>>>
     ELSE <<SubSeq(url, 1, i - 1), SubSeq(url, i + 1, Len(url))>>

\* The path and params of urlparse for a scheme and the path urlsplit found.
_params(scheme, path) ==
  IF scheme \in uses_params /\ Find(path, ";") > 0
  THEN _splitparams(path) ELSE <<path, <<>>>>

\* urlparse from the result of urlsplit.
_parsed(s) ==
  [scheme |-> s.scheme, netloc |-> s.netloc, path |-> _params(s.scheme, s.path)[1],
   params |-> _params(s.scheme, s.path)[2], query |-> s.query,
   fragment |-> s.fragment]

urlparse(url) == _parsed(urlsplit(url))

\* The netloc part of urlunsplit: "//" + netloc is put before the path when
\* there is a netloc, or when the scheme uses one and the path has no "//".
_withnetloc(p) ==
  IF p.netloc # <<>>
     \/ ( /\ p.scheme # <<>> /\ p.scheme \in uses_netloc
          /\ ~(Len(p.path) >= 2 /\ p.path[1] = "/" /\ p.path[2] = "/") )
  THEN <<"/", "/">> \o p.netloc
       \o (IF p.path # <<>> /\ Head(p.path) # "/" THEN <<"/">> ELSE <<>>)
       \o p.path
  ELSE p.path

urlunsplit(p) ==
  (IF p.scheme # <<>> THEN p.scheme \o <<":">> ELSE <<>>)
  \o _withnetloc(p)
  \o (IF p.query # <<>> THEN <<"?">> \o p.query ELSE <<>>)
  \o (IF p.fragment # <<>> THEN <<"#">> \o p.fragment ELSE <<>>)

urlunparse(p) ==
  urlunsplit([scheme |-> p.scheme, netloc |-> p.netloc,
              path |-> IF p.params # <<>> THEN p.path \o <<";">> \o p.params
                       ELSE p.path,
              query |-> p.query, fragment |-> p.fragment])

normalize_url(url) ==
  IF ~Truthy(url) THEN url
  ELSE urlunparse([urlparse(url) EXCEPT !.query = <<>>, !.fragment = <<>>])

----------------------------------------------------------------------------
\* Configuration and environment.

IG_USERNAME == <<"zlamp_a">>

\* datetime.now() rendered as text (isoformat / strftime): one token per tick.
now_iso(clk) == <<ToString(clk)>>

Digit(n) == ToString(n)

\* str(n) for the small counts of the model.
Str(n) == IF n < 10 THEN <<Digit(n)>> ELSE <<Digit(n \div 10), Digit(n % 10)>>

----------------------------------------------------------------------------
\* Durable files.

\* load_last_pic_url: None when the file is missing, else its stripped text.
load_last_pic_url(file) == IF file = None THEN None ELSE strip(file)

\* save_last_pic_url: the file's new content.
save_last_pic_url(url) == url

FIELDNAMES ==
  << <<"timestamp">>, <<"username">>, <<"followers">>, <<"following">>,
     <<"is_picture_updated">> >>

\* A writer that renders None as 0.
CsvField_zero(v) == IF v = None THEN <<"0">> ELSE v

\* csv.DictWriter renders None as the empty field and anything else by str().
CsvField(v) == IF v = None THEN <<>> ELSE v

CsvRow(entry) ==
  << CsvField(entry.timestamp), CsvField(entry.username),
     CsvField(entry.followers), CsvField(entry.following),
     <<ToString(entry.is_picture_updated)>> >>

\* log_to_csv with the header written on every call.
log_to_csv_always_header(log, entry) ==
  [exists |-> TRUE, lines |-> log.lines \o <<FIELDNAMES, CsvRow(entry)>>]

\* log_to_csv: the ledger file after appending entry.
log_to_csv(log, entry) ==
  LET is_new == ~log.exists
  IN [exists |-> TRUE,
      lines  |-> IF is_new THEN log.lines \o <<FIELDNAMES, CsvRow(entry)>>
                           ELSE Append(log.lines, CsvRow(entry))]

----------------------------------------------------------------------------
\* Page markup.  A page's text is represented by what the regular expressions
\* of the extraction helpers capture in it: text is "None" (no text read),
\* "" (empty text) or "html".

Html(t, ogp, ogn, ogs, hd, pic, desc) ==
  [text |-> t, og_property |-> ogp, og_name |-> ogn, og_secure_url |-> ogs,
   profile_pic_url_hd |-> hd, profile_pic_url |-> pic, description |-> desc]

NoneHtml  == Html("None", None, None, None, None, None, None)
EmptyHtml == Html("", None, None, None, None, None, None)

TruthyHtml(d) == d.text = "html"

\* `page or ""`
OrEmpty(d) == IF TruthyHtml(d) THEN d ELSE EmptyHtml

_extract_og_image_from_html(d) ==
  IF d.og_property # None THEN d.og_property
  ELSE IF d.og_name # None THEN d.og_name
  ELSE IF d.og_secure_url # None THEN d.og_secure_url
  ELSE None

_extract_profile_pic_from_jsonish(d) ==
  IF d.profile_pic_url_hd # None THEN d.profile_pic_url_hd
  ELSE IF d.profile_pic_url # None THEN d.profile_pic_url
  ELSE None

\* The characters of the class [\d,.]
NumChars == {"0", "1", "2", "3", "7", ",", "."}

\* re.search(r"([\d,.]+)\s+<word>", desc): group 1 of the leftmost match,
\* None without a match.  A description is a sequence of characters in which
\* the words "followers" and "following" are single tokens.
search_count(desc, word) ==
  LET Match(i, j) ==
        /\ \A x \in i..j : desc[x] \in NumChars
        /\ \E k \in (j + 2)..Len(desc) :
              /\ \A x \in (j + 1)..(k - 1) : desc[x] \in Whitespace
              /\ desc[k] = word
      starts == {i \in 1..Len(desc) : \E j \in i..Len(desc) : Match(i, j)}
  IN IF starts = {} THEN None
     ELSE LET i == CHOOSE a \in starts : \A b \in starts : a <= b
              j == CHOOSE e \in i..Len(desc) : Match(i, e)
          IN SubSeq(desc, i, j)

\* str.replace(",", "")
RECURSIVE remove_commas(_)
remove_commas(s) ==
  IF s = <<>> THEN <<>>
  ELSE IF Head(s) = "," THEN remove_commas(Tail(s))
  ELSE <<Head(s)>> \o remove_commas(Tail(s))

\* fol.group(1).replace(",", "") if fol else None
count_from(desc, word) ==
  LET m == search_count(desc, word)
  IN IF m = None THEN None ELSE remove_commas(m)

_extract_follow_counts_from_meta(d) ==
  IF d.description = None THEN <<None, None>>
  ELSE <<count_from(d.description, "followers"),
         count_from(d.description, "following")>>

\* _best_img_from_header over the header's <img src> elements; an element is
\* [src, cdn, w, raises]: cdn says that src contains one of the CDN markers,
\* w is the naturalWidth the script returns, raises that reading it throws.
RECURSIVE best_img(_, _, _)
best_img(imgs, best_src, best_w) ==
  IF imgs = <<>> THEN best_src
  ELSE LET img == Head(imgs)
       IN IF img.raises \/ ~Truthy(img.src) \/ ~img.cdn
          THEN best_img(Tail(imgs), best_src, best_w)
          ELSE IF img.w > best_w
               THEN best_img(Tail(imgs), img.src, img.w)
               ELSE best_img(Tail(imgs), best_src, best_w)

_best_img_from_header(imgs) == best_img(imgs, None, -1)

\* _fetch_profile_json: <<pic, followers, following>> from the endpoint's
\* answer j; j.ok says that the status is 200 and the body parses.
IntOr(a, b) == IF a # -1 /\ a # 0 THEN a ELSE b
StrOpt(n) == IF n = -1 THEN None ELSE Str(n)

_fetch_profile_json(j) ==
  IF ~j.ok THEN <<None, None, None>>
  ELSE << Or(j.profile_pic_url_hd, j.profile_pic_url),
          StrOpt(IntOr(j.edge_followed_by, j.follower_count)),
          StrOpt(IntOr(j.edge_follow, j.following_count)) >>

----------------------------------------------------------------------------
\* What the browser, the network and the file system may answer.

\* Picture URLs the page may carry: a with a query, a with a fragment, b, and
\* a URL that ends in a blank before its query.
UaQ  == <<"a", "?", "c">>
UaF  == <<"a", "#", "c">>
Ub   == <<"b">>
UaSQ == <<"a", " ", "?", "c">>

PicUrls == {UaQ, UaF, Ub, UaSQ}

\* img.get_attribute("src") of the first element a selector matches.
AltSrcs == {None} \cup PicUrls

Img(src, cdn, w, raises) == [src |-> src, cdn |-> cdn, w |-> w, raises |-> raises]

\* Outcomes of waiting for <header> and listing its images.
HeaderOutcomes ==
  { [kind |-> "timeout", imgs |-> <<>>],
    [kind |-> "raise",   imgs |-> <<>>],
    [kind |-> "imgs",    imgs |-> <<>>],
    [kind |-> "imgs",    imgs |-> <<Img(UaF, FALSE, 2, FALSE)>>],
    [kind |-> "imgs",    imgs |-> <<Img(UaF, TRUE, 1, FALSE), Img(Ub, TRUE, 2, FALSE)>>],
    [kind |-> "imgs",    imgs |-> <<Img(Ub, TRUE, 2, TRUE), Img(UaQ, TRUE, 0, FALSE)>>] }

\* content of the three og:image meta elements (None: no such element).
MetaContents == { <<None, None, None>>, <<None, <<>>, Ub>>, <<UaQ, Ub, None>> }

FollowersOnly == <<"1", ",", "2", " ", "followers">>
FollowingOnly == <<"7", " ", "following">>
BothCounts ==
  <<"1", "2", " ", "followers", ",", " ", "7", " ", "following">>

\* content of the description meta element (None: no such element).
Descriptions == {None, FollowersOnly, FollowingOnly, BothCounts}

\* Texts of the profile page.
Pages ==
  { EmptyHtml,
    Html("html", None, None, None, None, None, None),
    Html("html", Ub, None, None, None, UaQ, BothCounts),
    Html("html", None, None, None, None, UaQ, FollowersOnly),
    Html("html", None, UaF, None, Ub, None, FollowingOnly) }

Json(ok, hd, pic, efb, fc, ef, fgc) ==
  [ok |-> ok, profile_pic_url_hd |-> hd, profile_pic_url |-> pic,
   edge_followed_by |-> efb, follower_count |-> fc,
   edge_follow |-> ef, following_count |-> fgc]

\* Answers of the web_profile_info endpoint; -1 stands for a missing count.
Jsons ==
  { Json(FALSE, None, None, -1, -1, -1, -1),
    Json(TRUE, None, Ub, 12, -1, 0, 7),
    Json(TRUE, UaQ, Ub, -1, 12, -1, -1) }

----------------------------------------------------------------------------
\* State.

VARIABLES
  baseline,     \* last_pic_url.txt: None when missing, else its text
  ledger,       \* profile_log.csv: [exists, lines]
  pic_files,    \* profile_pics/: files [ts, content], content "full" | "partial"
  debug_files,  \* debug_artifacts/: capture times of the dumps
  clock,        \* wall clock, one tick per invocation
  procs,        \* the processes that invoke the script
  returned,     \* the entries scrape_and_log has returned to __main__, in order
  run,          \* per process: position in main/scrape_and_log and its locals
  call          \* a helper called on its own: [fn, arg, outs]

vars ==
  <<baseline, ledger, pic_files, debug_files, clock, procs, returned, run, call>>

files == <<baseline, ledger, pic_files, debug_files>>

NoEntry ==
  [timestamp |-> None, username |-> None, followers |-> None,
   following |-> None, is_picture_updated |-> 0]

\* A process before its invocation.  base0, rows0 and pics0 are the files as
\* the invocation found them; tried, chain, dl and wrote record what it has
\* done so far: tried holds "dom" once the page strategies have begun,
\* "http_html" once the raw page was fetched and "json" once the JSON endpoint
\* was asked; chain says whether the strategies ended with a picture URL.
\* page is the page the browser session shows.
InitRun ==
  [pc |-> "idle", strict |-> FALSE, driver |-> "None", page |-> "none",
   pic_url |-> None, followers |-> None, following |-> None,
   page_html |-> NoneHtml, exc |-> "none",
   current_norm |-> None, last_norm |-> None, is_updated |-> 0, ts |-> 0,
   tried |-> {}, chain |-> "none", dl |-> "none", wrote |-> FALSE,
   base0 |-> None, rows0 |-> 0, pics0 |-> {},
   result |-> NoEntry, exit |-> "none"]

\* No helper is called on its own.
NoCall == [fn |-> "none", arg |-> None, outs |-> <<>>]

Init ==
  /\ baseline = None
  /\ ledger = [exists |-> FALSE, lines |-> <<>>]
  /\ pic_files = {}
  /\ debug_files = {}
  /\ clock = 0
  /\ procs = {1}
  /\ returned = <<>>
  /\ run = [p \in Procs |-> InitRun]
  /\ call = NoCall

\* The locals of scrape_and_log are gone once the function is left.
Leave(r) ==
  [r EXCEPT !.pic_url = None, !.followers = None, !.following = None,
            !.page_html = NoneHtml, !.current_norm = None, !.last_norm = None,
            !.is_updated = 0, !.ts = 0]

\* open(path, "wb") and what got written: a file of the same name is replaced.
WriteFile(dir, ts, content) ==
  {f \in dir : f.ts # ts} \cup {[ts |-> ts, content |-> content]}

Upd(p, r) == run' = [run EXCEPT ![p] = r]

----------------------------------------------------------------------------
\* __main__ (lines 537-541) and the head of scrape_and_log (416-423).

\* An invocation that waits until no other invocation is under way.
MayStart_serialized(p) == \A q \in Procs \ {p} : run[q].pc \in {"idle", "done"}

\* Lines 537-541: the script takes no lock and looks for no other invocation
\* before it calls scrape_and_log.
MayStart(p) == TRUE

Start(p) ==
  /\ p \in procs
  /\ run[p].pc \in {"idle", "done"}
  /\ MayStart(p)
  /\ clock < MaxRuns
  /\ clock' = clock + 1
  /\ \E s \in BOOLEAN :
       Upd(p, [InitRun EXCEPT !.pc = "build_driver", !.strict = s,
                              !.base0 = baseline,
                              !.rows0 = Len(ledger.lines),
                              !.pics0 = pic_files])
  /\ UNCHANGED <<files, procs, call, returned>>

\* A failure of _build_driver that is raised to the caller instead.
AfterBuildFailure_fatal(r) ==
  [r EXCEPT !.driver = "None", !.exc = "RuntimeError", !.pc = "main_except"]

\* Lines 426-431: a failure of _build_driver is printed, driver stays None
\* and the browser phase is skipped.
AfterBuildFailure(r) == [r EXCEPT !.driver = "None", !.pc = "http_fallback"]

\* Lines 424-431: _build_driver.
BuildDriver(p) ==
  /\ run[p].pc = "build_driver"
  /\ \E ok \in BOOLEAN :
       IF ok
       THEN Upd(p, [run[p] EXCEPT !.driver = "up", !.pc = "get"])
       ELSE Upd(p, AfterBuildFailure(run[p]))
  /\ UNCHANGED <<files, clock, procs, call, returned>>

\* A page load that recognises a login wall and raises.
AfterLoad_detects(r, pg) ==
  IF pg = "wall"
  THEN [r EXCEPT !.page = pg, !.exc = "AuthenticationRequired", !.pc = "finally"]
  ELSE [r EXCEPT !.page = pg, !.pc = "dom_alt"]

\* Lines 433-439: whatever page was loaded (the profile or a login wall), the
\* code waits, dismisses interstitials and goes on to the DOM strategies.
AfterLoad(r, pg) == [r EXCEPT !.page = pg, !.pc = "dom_alt"]

\* Lines 433-436: driver.get, _ready, _dismiss_interstitials, _ready.  Only
\* driver.get is outside a try/except.
Get(p) ==
  /\ run[p].pc = "get"
  /\ \/ Upd(p, [run[p] EXCEPT !.exc = "WebDriverException", !.pc = "finally"])
     \/ \E pg \in {"profile", "wall"} : Upd(p, AfterLoad(run[p], pg))
  /\ UNCHANGED <<files, clock, procs, call, returned>>

\* _get_profile_img_src_dom, lines 335-352: the "profile picture" selectors.
DomAlt(p) ==
  /\ run[p].pc = "dom_alt"
  /\ \E src \in AltSrcs :
       LET r == [run[p] EXCEPT !.tried = @ \cup {"dom"}]
       IN IF Truthy(src)
          THEN Upd(p, [r EXCEPT !.pic_url = src, !.pc = "stats_dom"])
          ELSE Upd(p, [r EXCEPT !.pc = "dom_header"])
  /\ UNCHANGED <<files, clock, procs, call, returned>>

\* Lines 354-357 with _best_img_from_header (300-330); header.find_elements
\* (line 310) is outside a try/except.
DomHeader(p) ==
  /\ run[p].pc = "dom_header"
  /\ \E h \in HeaderOutcomes :
       LET r   == run[p]
           src == IF h.kind = "imgs" THEN _best_img_from_header(h.imgs) ELSE None
       IN IF h.kind = "raise"
          THEN Upd(p, [r EXCEPT !.exc = "WebDriverException", !.pc = "finally"])
          ELSE IF Truthy(src)
          THEN Upd(p, [r EXCEPT !.pic_url = src, !.pc = "stats_dom"])
          ELSE Upd(p, [r EXCEPT !.pc = "dom_meta"])
  /\ UNCHANGED <<files, clock, procs, call, returned>>

\* Lines 359-367: the og:image meta elements, first truthy content.
DomMeta(p) ==
  /\ run[p].pc = "dom_meta"
  /\ \E c \in MetaContents :
       LET r       == run[p]
           content == Or(c[1], Or(c[2], c[3]))
       IN IF Truthy(content)
          THEN Upd(p, [r EXCEPT !.pic_url = content, !.pc = "stats_dom"])
          ELSE Upd(p, [r EXCEPT !.pc = "dom_regex"])
  /\ UNCHANGED <<files, clock, procs, call, returned>>

\* Lines 369-371: the regexes over driver.page_source, which is read outside
\* a try/except; whatever they give is what line 439 assigns to pic_url.
DomRegex(p) ==
  /\ run[p].pc = "dom_regex"
  /\ LET r == run[p]
     IN \/ Upd(p, [r EXCEPT !.exc = "WebDriverException", !.pc = "finally"])
        \/ \E src \in Pages :
             LET html_src == OrEmpty(src)
             IN Upd(p, [r EXCEPT
                  !.pic_url = Or(_extract_og_image_from_html(html_src),
                                 _extract_profile_pic_from_jsonish(html_src)),
                  !.pc = "stats_dom"])
  /\ UNCHANGED <<files, clock, procs, call, returned>>

\* Lines 441-450: followers/following from the description meta element; any
\* exception is swallowed.
StatsDom(p) ==
  /\ run[p].pc = "stats_dom"
  /\ LET r == run[p]
     IN \/ Upd(p, [r EXCEPT !.pc = "page_source"])
        \/ \E content \in Descriptions :
             LET desc == IF content = None THEN <<>> ELSE content
             IN Upd(p, [r EXCEPT
                  !.followers = Or(@, count_from(desc, "followers")),
                  !.following = Or(@, count_from(desc, "following")),
                  !.pc = "page_source"])
  /\ UNCHANGED <<files, clock, procs, call, returned>>

\* Lines 452-457: page_html = driver.page_source or "" (outside a try/except)
\* and the regexes over it when no picture was found so far.
PageSource(p) ==
  /\ run[p].pc = "page_source"
  /\ \/ Upd(p, [run[p] EXCEPT !.exc = "WebDriverException", !.pc = "finally"])
     \/ \E src \in Pages :
          LET html == OrEmpty(src)
              r    == [run[p] EXCEPT !.page_html = html, !.pc = "finally"]
          IN IF ~Truthy(run[p].pic_url)
             THEN Upd(p, [r EXCEPT
                    !.pic_url = Or(_extract_og_image_from_html(html),
                                   _extract_profile_pic_from_jsonish(html))])
             ELSE Upd(p, r)
  /\ UNCHANGED <<files, clock, procs, call, returned>>

\* A release that is skipped while an exception is on its way out.
QuitDriver_unless_raised(r) ==
  IF r.exc # "none" THEN r ELSE [r EXCEPT !.driver = "quit", !.page = "none"]

\* Lines 477-480: driver.quit(), whose own failure is swallowed; the session
\* and the page it showed are gone.
QuitDriver(r) == [r EXCEPT !.driver = "quit", !.page = "none"]

\* Lines 459-480, the finally clause of the browser phase: the debug dump when
\* no picture was found, driver.quit, and then either the pending exception
\* leaves scrape_and_log or the function goes on.
Finally(p) ==
  /\ run[p].pc = "finally"
  /\ debug_files' = IF ~Truthy(run[p].pic_url)
                    THEN debug_files \cup {clock} ELSE debug_files
  /\ LET r == QuitDriver(run[p])
     IN IF r.exc # "none"
        THEN Upd(p, [Leave(r) EXCEPT !.pc = "main_except"])
        ELSE Upd(p, [r EXCEPT !.pc = "http_fallback"])
  /\ UNCHANGED <<baseline, ledger, pic_files, clock, procs, call, returned>>

\* Lines 482-491: the raw HTML fallback.  _fetch_profile_html (375-382) gives
\* None unless the answer is a non-empty 200.  page_html is not read after
\* line 489, so the model keeps it no longer.
HttpFallback(p) ==
  /\ run[p].pc = "http_fallback"
  /\ LET r == run[p]
     IN IF Truthy(r.pic_url) /\ Truthy(r.followers) /\ Truthy(r.following)
        THEN Upd(p, [r EXCEPT !.page_html = NoneHtml, !.pc = "json_fallback"])
        ELSE \E fetched \in {NoneHtml} \cup (Pages \ {EmptyHtml}) :
               LET fetch == ~TruthyHtml(r.page_html)
                   html  == IF fetch THEN OrEmpty(fetched) ELSE r.page_html
                   pic   == IF ~Truthy(r.pic_url)
                            THEN Or(_extract_og_image_from_html(html),
                                    _extract_profile_pic_from_jsonish(html))
                            ELSE r.pic_url
                   stats == ~(Truthy(r.followers) /\ Truthy(r.following))
                   f     == _extract_follow_counts_from_meta(OrEmpty(html))
               IN /\ fetch \/ fetched = NoneHtml
                  /\ Upd(p, [r EXCEPT
                       !.page_html = NoneHtml,
                       !.pic_url   = pic,
                       !.followers = IF stats THEN Or(@, f[1]) ELSE @,
                       !.following = IF stats THEN Or(@, f[2]) ELSE @,
                       !.tried = @ \cup (IF fetch THEN {"http_html"} ELSE {}),
                       !.pc = "json_fallback"])
  /\ UNCHANGED <<files, clock, procs, call, returned>>

\* A JSON lookup that only upgrades a picture URL that was already found.
AsksJson_upgrade_only(pic_url, followers, following) == Truthy(pic_url)

\* Line 493: the JSON endpoint is asked when anything is still missing.
AsksJson(pic_url, followers, following) ==
  ~(Truthy(pic_url) /\ Truthy(followers) /\ Truthy(following))

\* Lines 493-498: the JSON endpoint as the last resort.
JsonFallback(p) ==
  /\ run[p].pc = "json_fallback"
  /\ LET r == run[p]
     IN IF ~AsksJson(r.pic_url, r.followers, r.following)
        THEN Upd(p, [r EXCEPT !.pc = "policy"])
        ELSE \E j \in Jsons :
               LET a == _fetch_profile_json(j)
               IN Upd(p, [r EXCEPT
                    !.pic_url   = Or(@, a[1]),
                    !.followers = Or(@, a[2]),
                    !.following = Or(@, a[3]),
                    !.tried = @ \cup {"json"},
                    !.pc = "policy"])
  /\ UNCHANGED <<files, clock, procs, call, returned>>

\* The policy without its strict branch, and with the strict flag ignored.
RaisesOnMiss_never(pic_url, strict) == FALSE

RaisesOnMiss_always(pic_url, strict) == ~Truthy(pic_url)

\* Lines 500-507: a missing picture raises in strict mode and is only warned
\* about otherwise.
RaisesOnMiss(pic_url, strict) == ~Truthy(pic_url) /\ strict

Policy(p) ==
  /\ run[p].pc = "policy"
  /\ LET r == [run[p] EXCEPT
                !.chain = IF Truthy(run[p].pic_url) THEN "found" ELSE "exhausted"]
     IN IF RaisesOnMiss(r.pic_url, r.strict)
        THEN Upd(p, [Leave(r) EXCEPT !.exc = "RuntimeError", !.pc = "main_except"])
        ELSE Upd(p, [r EXCEPT !.pc = "compare"])
  /\ UNCHANGED <<files, clock, procs, call, returned>>

\* The change test that always fires, and the one that needs a baseline.
Changed_always(current_norm, last_norm) == TRUE

Changed_needs_baseline(current_norm, last_norm) ==
  last_norm # None /\ current_norm # last_norm

\* Line 514: the change test.
Changed(current_norm, last_norm) == current_norm # last_norm

\* Lines 509-517: normalise, read the baseline, compare.
Compare(p) ==
  /\ run[p].pc = "compare"
  /\ LET r == [run[p] EXCEPT !.is_updated = 0]
     IN IF Truthy(r.pic_url)
        THEN LET current_norm == normalize_url(r.pic_url)
                 last_norm    == load_last_pic_url(baseline)
                 r2 == [r EXCEPT !.current_norm = current_norm,
                                 !.last_norm = last_norm]
             IN IF Changed(current_norm, last_norm)
                THEN Upd(p, [r2 EXCEPT !.ts = clock, !.pc = "download"])
                ELSE Upd(p, [r2 EXCEPT !.pc = "log"])
        ELSE Upd(p, [r EXCEPT !.pc = "log"])
  /\ UNCHANGED <<files, clock, procs, call, returned>>

\* A failed download that still goes on to save the baseline.
AfterFailedDownload_saves(r) == [r EXCEPT !.dl = "failed", !.pc = "save"]

\* Lines 522-523: the failure of the download is printed and the rest of the
\* try block (save_last_pic_url, is_updated = 1) is skipped.
AfterFailedDownload(r) == [r EXCEPT !.dl = "failed", !.pc = "log"]

\* Line 519, download_image (112-121): it succeeds, fails before the file is
\* opened (request error, non-2xx), or fails while the body is streamed.
Download(p) ==
  /\ run[p].pc = "download"
  /\ \E outcome \in {"ok", "error", "broken"} :
       /\ pic_files' = IF outcome = "ok" THEN WriteFile(pic_files, run[p].ts, "full")
                       ELSE IF outcome = "broken"
                       THEN WriteFile(pic_files, run[p].ts, "partial")
                       ELSE pic_files
       /\ IF outcome = "ok"
          THEN Upd(p, [run[p] EXCEPT !.dl = "ok", !.pc = "save"])
          ELSE Upd(p, AfterFailedDownload(run[p]))
  /\ UNCHANGED <<baseline, ledger, debug_files, clock, procs, call, returned>>

\* A saved baseline without the flag being set.
AfterSave_unflagged(r) == [r EXCEPT !.wrote = TRUE, !.pc = "log"]

\* Line 521: is_updated = 1, right after the baseline was saved.
AfterSave(r) == [r EXCEPT !.is_updated = 1, !.wrote = TRUE, !.pc = "log"]

\* Lines 520-521: save_last_pic_url(current_norm); is_updated = 1.
Save(p) ==
  /\ run[p].pc = "save"
  /\ baseline' = save_last_pic_url(run[p].current_norm)
  /\ Upd(p, AfterSave(run[p]))
  /\ UNCHANGED <<ledger, pic_files, debug_files, clock, procs, call, returned>>

\* Lines 525-533: build the entry, append it, return it.
Log(p) ==
  /\ run[p].pc = "log"
  /\ LET entry == [timestamp |-> now_iso(clock), username |-> IG_USERNAME,
                   followers |-> run[p].followers,
                   following |-> run[p].following,
                   is_picture_updated |-> run[p].is_updated]
     IN /\ ledger' = log_to_csv(ledger, entry)
        /\ Upd(p, [Leave(run[p]) EXCEPT !.result = entry, !.pc = "returned"])
  /\ UNCHANGED <<baseline, pic_files, debug_files, clock, procs, call, returned>>

\* Lines 542-547: the result is printed, or the exception is re-raised when
\* strict and printed as a warning otherwise.
ExitCode(raised, strict) == IF raised /\ strict THEN "1" ELSE "0"

MainExit(p) ==
  /\ run[p].pc \in {"returned", "main_except"}
  /\ Upd(p, [run[p] EXCEPT
       !.exit = ExitCode(run[p].pc = "main_except", run[p].strict),
       !.pc = "done"])
  /\ returned' = IF run[p].pc = "returned"
                 THEN Append(returned, run[p].result) ELSE returned
  /\ UNCHANGED <<files, clock, procs, call>>

Next ==
  \E p \in Procs :
    \/ Start(p)
    \/ BuildDriver(p)
    \/ Get(p)
    \/ DomAlt(p)
    \/ DomHeader(p)
    \/ DomMeta(p)
    \/ DomRegex(p)
    \/ StatsDom(p)
    \/ PageSource(p)
    \/ Finally(p)
    \/ HttpFallback(p)
    \/ JsonFallback(p)
    \/ Policy(p)
    \/ Compare(p)
    \/ Download(p)
    \/ Save(p)
    \/ Log(p)
    \/ MainExit(p)

Spec == Init /\ [][Next]_vars

----------------------------------------------------------------------------
\* Two invocations that overlap (two scheduled runs, one of them late).  The
\* first has gone through its strategies alone, found the picture URL in the
\* page together with both counts, and stands before its change test (line
\* 509) when the second may start; it is the last invocation but one that the
\* model follows.  No file exists yet.

InitOverlap ==
  /\ baseline = None
  /\ ledger = [exists |-> FALSE, lines |-> <<>>]
  /\ pic_files = {}
  /\ debug_files = {}
  /\ clock = MaxRuns - 1
  /\ procs = Procs
  /\ returned = <<>>
  /\ \E u \in PicUrls :
       run = [p \in Procs |->
                IF p = 1
                THEN [InitRun EXCEPT !.pc = "compare", !.driver = "quit",
                                     !.pic_url = u, !.followers = <<"1", "2">>,
                                     !.following = <<"7">>, !.tried = {"dom"},
                                     !.chain = "found"]
                ELSE InitRun]
  /\ call = NoCall

SpecOverlap == InitOverlap /\ [][Next]_vars

----------------------------------------------------------------------------
\* normalize_url called on its own, on every URL of a bounded set, and then
\* on its own result.

\* Longest URL text after the scheme.
MaxLen == 4

UrlChars == {"a", ":", "/", ";", "?", "#", " "}

\* The strings over alphabet A of at most n characters.
Strs(A, n) == UNION {[1..k -> A] : k \in 0..n}

Urls == {pre \o t : pre \in {<<>>, Http \o <<":">>}, t \in Strs(UrlChars, MaxLen)}

\* The script itself stays as it is before its first invocation.
script == <<baseline, ledger, pic_files, debug_files, clock, procs, returned, run>>

InitUrl ==
  /\ baseline = None
  /\ ledger = [exists |-> FALSE, lines |-> <<>>]
  /\ pic_files = {}
  /\ debug_files = {}
  /\ clock = 0
  /\ procs = {}
  /\ returned = <<>>
  /\ run = [p \in Procs |-> InitRun]
  /\ call \in {[fn |-> "normalize_url", arg |-> u, outs |-> <<>>] : u \in Urls}

\* normalize_url(u)
Normalize ==
  /\ call.fn = "normalize_url" /\ call.outs = <<>>
  /\ call' = [call EXCEPT !.outs = <<normalize_url(call.arg)>>]
  /\ UNCHANGED script

\* normalize_url(normalize_url(u))
NormalizeAgain ==
  /\ call.fn = "normalize_url" /\ Len(call.outs) = 1
  /\ call' = [call EXCEPT !.outs = Append(@, normalize_url(call.outs[1]))]
  /\ UNCHANGED script

NextUrl == Normalize \/ NormalizeAgain

SpecUrl == InitUrl /\ [][NextUrl]_vars

----------------------------------------------------------------------------
\* The count extraction called on its own, on every description of the shape
\* "<count> followers" or "<count> following" of a bounded set.

\* Longest count text.
MaxCount == 4

CountChars == {"1", "2", ",", ".", "k", "x"}

CountDescriptions ==
  {c \o <<" ", w>> : c \in Strs(CountChars, MaxCount), w \in {"followers", "following"}}

InitCounts ==
  /\ baseline = None
  /\ ledger = [exists |-> FALSE, lines |-> <<>>]
  /\ pic_files = {}
  /\ debug_files = {}
  /\ clock = 0
  /\ procs = {}
  /\ returned = <<>>
  /\ run = [p \in Procs |-> InitRun]
  /\ call \in {[fn |-> "_extract_follow_counts_from_meta", arg |-> d, outs |-> <<>>] :
                 d \in CountDescriptions}

\* _extract_follow_counts_from_meta on a page whose description is call.arg.
ExtractCounts ==
  /\ call.fn = "_extract_follow_counts_from_meta" /\ call.outs = <<>>
  /\ call' = [call EXCEPT !.outs =
                 <<_extract_follow_counts_from_meta(
                     Html("html", None, None, None, None, None, call.arg))>>]
  /\ UNCHANGED script

\* Lines 445-448: the same two searches over the content of the DOM's
\* description element.
ExtractCountsDom ==
  /\ call.fn = "_extract_follow_counts_from_meta" /\ Len(call.outs) = 1
  /\ call' = [call EXCEPT !.outs =
                 Append(@, <<count_from(call.arg, "followers"),
                             count_from(call.arg, "following")>>)]
  /\ UNCHANGED script

NextCounts == ExtractCounts \/ ExtractCountsDom

SpecCounts == InitCounts /\ [][NextCounts]_vars

----------------------------------------------------------------------------
\* Vocabulary of the properties.

\* The lines the ledger has gained since process p was invoked, and the data
\* rows among them.
Appended(p) == SubSeq(ledger.lines, run[p].rows0 + 1, Len(ledger.lines))

IsDataRow(line) == line # FIELDNAMES

DataAppended(p) == SelectSeq(Appended(p), IsDataRow)

LastLine(log) == log.lines[Len(log.lines)]

\* The is_picture_updated field of a ledger line.
UpdatedField(line) == line[5]

\* scrape_and_log of process p has been left by an exception.
Escaped(p) == run[p].exc # "none" /\ run[p].pc \in {"main_except", "done"}

\* scrape_and_log of process p has returned its entry.
Returned(p) == run[p].exc = "none" /\ run[p].pc \in {"returned", "done"}

\* _build_driver of the current invocation of p has failed.
BrowserFailed(p) ==
  run[p].driver = "None" /\ run[p].pc \notin {"idle", "build_driver"}

\* The step in which process p writes the baseline file.
WritesBaseline(p) == ~run[p].wrote /\ run'[p].wrote

\* The step in which process p appends its entry and returns.
LogStep(p) == run[p].pc = "log" /\ run'[p].pc = "returned"

\* The URLs U of which url is U followed by a query string or a fragment.
Bases(url) ==
  {SubSeq(url, 1, i - 1) : i \in {k \in 1..Len(url) : url[k] \in {"?", "#"}}}

----------------------------------------------------------------------------
C2_FirstRunAlwaysUpdated ==
  [][ \A p \in Procs :
        (LogStep(p) /\ run[p].base0 = None /\ Truthy(run[p].pic_url)) =>
          /\ UpdatedField(LastLine(ledger')) = <<"1">>
          /\ baseline' = normalize_url(run[p].pic_url)
    ]_vars

\* C2: on a first run (no baseline file) that resolved an avatar URL the
\* download is attempted; when it succeeds the appended row has
\* is_picture_updated = 1 and the baseline is the normalized URL, and when it
\* fails the row has 0 and there is still no baseline file.
C2_FirstRunUpdatedIfDownloaded ==
  [][ \A p \in Procs :
        (LogStep(p) /\ run[p].base0 = None /\ Truthy(run[p].pic_url)) =>
          /\ run[p].dl # "none"
          /\ run[p].dl = "ok" =>
               /\ UpdatedField(LastLine(ledger')) = <<"1">>
               /\ baseline' = normalize_url(run[p].pic_url)
          /\ run[p].dl = "failed" =>
               /\ UpdatedField(LastLine(ledger')) = <<"0">>
               /\ baseline' = None
    ]_vars

\* A first run has returned an entry with is_picture_updated = 1.
C2_Witness ==
  \E p \in Procs :
    /\ Returned(p) /\ run[p].base0 = None
    /\ run[p].result.is_picture_updated = 1
    /\ baseline # None

\* C3: when the baseline file holds normalize(U) and the run resolves U with
\* a query string or a fragment appended, the run records
\* is_picture_updated = 0, attempts no download, leaves the baseline and the
\* picture directory as they were and appends exactly one ledger row.
C3_CacheBustedUrlIsUnchanged ==
  [][ \A p \in Procs :
        ( /\ LogStep(p)
          /\ Truthy(run[p].pic_url)
          /\ \E U \in Bases(run[p].pic_url) :
               Truthy(U) /\ run[p].base0 = normalize_url(U) ) =>
          /\ UpdatedField(LastLine(ledger')) = <<"0">>
          /\ run[p].dl = "none"
          /\ pic_files' = run[p].pics0
          /\ baseline' = run[p].base0
          /\ Len(ledger'.lines) = Len(ledger.lines) + 1
    ]_vars

\* C4: the ledger is one header line followed by the rows of the entries that
\* scrape_and_log has returned, in the order of the runs (the entry of a run
\* that has returned but not yet reached __main__ being the last one), and no
\* step changes or removes a line that is already there.
C4_LedgerIsHeaderPlusReturnedRows ==
  /\ [] ( LET inflight == {p \in Procs : run[p].pc = "returned"}
              entries  ==
                IF inflight = {} THEN returned
                ELSE Append(returned, run[CHOOSE p \in inflight : TRUE].result)
          IN /\ Cardinality(inflight) <= 1
             /\ ledger.lines =
                  IF entries = <<>> THEN <<>>
                  ELSE <<FIELDNAMES>> \o [i \in 1..Len(entries) |-> CsvRow(entries[i])]
             /\ ledger.exists = (entries # <<>>) )
  /\ [][ /\ Len(ledger'.lines) >= Len(ledger.lines)
         /\ SubSeq(ledger'.lines, 1, Len(ledger.lines)) = ledger.lines ]_vars

\* Two runs have returned and the ledger holds the header and their two rows.
C4_Witness ==
  /\ Len(returned) = 2
  /\ Len(ledger.lines) = 3
  /\ ledger.lines[1] = FIELDNAMES

\* C5 as stated: in strict mode with the avatar chain exhausted, the failure
\* is signalled only after the run has appended its ledger row.
C5_RowAppendedBeforeStrictFailure ==
  \A p \in Procs :
    run[p].exc = "RuntimeError" => Len(DataAppended(p)) = 1

\* C5: in strict mode with the avatar chain exhausted, the run raises before
\* anything is appended: the ledger, the baseline and the picture directory
\* are as the run found them, and the process exits non-zero.
C5_StrictFailureWritesNoRow ==
  \A p \in Procs :
    /\ (run[p].chain = "exhausted" /\ run[p].strict) =>
         run[p].exc = "RuntimeError" /\ Escaped(p)
    /\ run[p].exc = "RuntimeError" =>
         /\ run[p].chain = "exhausted" /\ run[p].strict
         /\ Appended(p) = <<>>
         /\ baseline = run[p].base0
         /\ pic_files = run[p].pics0
         /\ run[p].pc = "done" => run[p].exit = "1"

\* A strict run whose avatar chain was exhausted has exited.
C5_Witness ==
  \E p \in Procs :
    /\ run[p].pc = "done" /\ run[p].exc = "RuntimeError"
    /\ run[p].exit = "1" /\ "json" \in run[p].tried

\* C6: in lenient mode with the avatar chain exhausted, the run attempts no
\* download, leaves the baseline and the picture directory as it found them,
\* appends exactly one ledger row, with is_picture_updated = 0, and the
\* process exits with success.
C6_LenientMissLogsRow ==
  \A p \in Procs :
    (run[p].chain = "exhausted" /\ ~run[p].strict) =>
      /\ run[p].dl = "none" /\ ~run[p].wrote
      /\ baseline = run[p].base0
      /\ pic_files = run[p].pics0
      /\ run[p].exc = "none"
      /\ run[p].pc \in {"compare", "log", "returned", "done"}
      /\ run[p].pc \in {"compare", "log"} => Appended(p) = <<>>
      /\ run[p].pc \in {"returned", "done"} =>
           /\ Len(DataAppended(p)) = 1
           /\ UpdatedField(LastLine(ledger)) = <<"0">>
           /\ run[p].result.is_picture_updated = 0
      /\ run[p].pc = "done" => run[p].exit = "0"

\* A lenient run whose avatar chain was exhausted has exited, next to an
\* existing baseline.
C6_Witness ==
  \E p \in Procs :
    /\ run[p].pc = "done" /\ run[p].chain = "exhausted" /\ ~run[p].strict
    /\ run[p].exit = "0" /\ baseline # None

\* C7: when the download fails in a run whose resolved URL differs from the
\* baseline, the baseline stays as the run found it, the run records
\* is_picture_updated = 0, appends its one ledger row and returns normally.
C7_FailedDownloadKeepsBaseline ==
  \A p \in Procs :
    run[p].dl = "failed" =>
      /\ ~run[p].wrote
      /\ baseline = run[p].base0
      /\ run[p].exc = "none"
      /\ run[p].pc \in {"log", "returned", "done"}
      /\ run[p].pc = "log" => run[p].is_updated = 0
      /\ run[p].pc \in {"returned", "done"} =>
           /\ Len(DataAppended(p)) = 1
           /\ UpdatedField(LastLine(ledger)) = <<"0">>
           /\ run[p].result.is_picture_updated = 0
      /\ run[p].pc = "done" => run[p].exit = "0"

\* A run whose download failed has exited, next to an existing baseline.
C7_Witness ==
  \E p \in Procs :
    /\ run[p].pc = "done" /\ run[p].dl = "failed"
    /\ run[p].base0 # None /\ Len(DataAppended(p)) = 1

\* C8: an exception of the browser during the page load or during a strategy
\* never leaves scrape_and_log, and the run that met it still appends exactly
\* one ledger row.
C8_BrowserExceptionNeverEscapes ==
  \A p \in Procs :
    run[p].exc = "WebDriverException" =>
      /\ ~Escaped(p)
      /\ run[p].pc = "done" => Len(DataAppended(p)) = 1

\* C9 as stated: when the browser cannot be started the run is fatal: no
\* strategy is attempted, no ledger row is written, the baseline is untouched
\* and the process exits non-zero.
C9_BrowserUnavailableIsFatal ==
  \A p \in Procs :
    BrowserFailed(p) =>
      /\ run[p].tried = {}
      /\ Appended(p) = <<>>
      /\ baseline = run[p].base0
      /\ run[p].pc = "done" => run[p].exit = "1"

\* C9: when the browser cannot be started the run goes on without it: no page
\* strategy is attempted, the raw page is fetched over HTTP, and the run ends
\* like any other, either returning after it has appended its one ledger row
\* (exit 0) or, in strict mode without a picture URL, raising before any row
\* is written (exit 1).
C9_BrowserUnavailableFallsBack ==
  \A p \in Procs :
    BrowserFailed(p) =>
      /\ "dom" \notin run[p].tried
      /\ run[p].pc # "http_fallback" => "http_html" \in run[p].tried
      /\ run[p].pc = "done" =>
           \/ /\ run[p].exc = "none"
              /\ Len(DataAppended(p)) = 1
              /\ run[p].exit = "0"
           \/ /\ run[p].exc = "RuntimeError"
              /\ run[p].strict /\ run[p].chain = "exhausted"
              /\ Appended(p) = <<>>
              /\ run[p].exit = "1"

\* A run without a browser has found the picture over HTTP, saved it and
\* exited with success.
C9_Witness ==
  \E p \in Procs :
    /\ BrowserFailed(p) /\ run[p].pc = "done" /\ run[p].exit = "0"
    /\ run[p].wrote /\ Len(DataAppended(p)) = 1

\* C10 as stated: once the loaded page is a login wall, the run reports
\* AuthenticationRequired and attempts no avatar or stats strategy.
C10_LoginWallStopsTheRun ==
  \A p \in Procs :
    run[p].page = "wall" =>
      /\ "dom" \notin run[p].tried
      /\ run[p].pc \notin {"dom_header", "dom_meta", "dom_regex", "stats_dom",
                          "page_source"}

\* C10: a login wall is not told apart from any other page: while the browser
\* shows one, the run is at the page strategies or at their finally clause,
\* the only exception it can carry is the browser's own, and past the first
\* strategy that strategy has been attempted.
C10_LoginWallIsNotDetected ==
  \A p \in Procs :
    run[p].page = "wall" =>
      /\ run[p].pc \in {"dom_alt", "dom_header", "dom_meta", "dom_regex",
                       "stats_dom", "page_source", "finally"}
      /\ run[p].exc \in {"none", "WebDriverException"}
      /\ run[p].pc # "dom_alt" => "dom" \in run[p].tried
      /\ (run[p].pc = "finally" /\ run[p].exc = "none") =>
           run[p].page_html # NoneHtml

\* On a login wall every page strategy has run and missed, and the run is
\* about to go on to the HTTP fallbacks.
C10_Witness ==
  \E p \in Procs :
    /\ run[p].page = "wall" /\ run[p].pc = "finally"
    /\ run[p].exc = "none" /\ ~Truthy(run[p].pic_url)
----------------------------------------------------------------------------
\* Vocabulary of the properties on helpers called on their own.

DigitChars == {"1", "2"}
Separators == {",", "."}

\* s is groups of digits with single separators between them.
IsSeparatedCount(s) ==
  /\ s # <<>> /\ s[1] \in DigitChars /\ s[Len(s)] \in DigitChars
  /\ \A i \in 1..Len(s) : s[i] \in DigitChars \cup Separators
  /\ \A i \in 1..(Len(s) - 1) : ~(s[i] \in Separators /\ s[i + 1] \in Separators)

\* The integer a separated count stands for, as text: its digits.
DigitsOf(s) == SelectSeq(s, LAMBDA ch : ch \in DigitChars)

\* s is digits, or one digit, a dot and one digit, followed by the suffix k.
IsSuffixedCount(s) ==
  /\ Len(s) >= 2 /\ s[Len(s)] = "k"
  /\ LET m == SubSeq(s, 1, Len(s) - 1)
     IN \/ \A i \in 1..Len(m) : m[i] \in DigitChars
        \/ Len(m) = 3 /\ m[1] \in DigitChars /\ m[2] = "." /\ m[3] \in DigitChars

\* The integer a suffixed count stands for, as text: 12k is 12000, 1.2k is 1200.
ThousandsOf(s) ==
  LET m == SubSeq(s, 1, Len(s) - 1)
  IN IF Len(m) = 3 /\ m[2] = "." THEN <<m[1], m[3], "0", "0">>
     ELSE m \o <<"0", "0", "0">>

\* C11: normalize_url is idempotent, and its result has an empty query and an
\* empty fragment while its scheme, host and path are those of the URL it was
\* given.
C11_NormalizeIsIdempotent ==
  /\ Len(call.outs) = 2 => call.outs[2] = call.outs[1]
  /\ Len(call.outs) >= 1 =>
       LET u == urlparse(call.arg)
           n == urlparse(call.outs[1])
       IN /\ n.query = <<>> /\ n.fragment = <<>>
          /\ n.scheme = u.scheme /\ n.netloc = u.netloc /\ n.path = u.path

\* C12: from a description "<count> followers" (or "<count> following") the
\* extraction resolves the field to the integer the count stands for when the
\* count is written with comma or dot separators (1,2 is 12) or with the
\* suffix k (12k is 12000, 1.2k is 1200), and to absent when the text before
\* the word holds no digit at all; the search over the DOM's description gives
\* the same.
C12_CountsWithSeparatorsAndSuffix ==
  call.fn = "_extract_follow_counts_from_meta" =>
    \A i \in 1..Len(call.outs) :
      LET d   == call.arg
          c   == SubSeq(d, 1, Len(d) - 2)
          got == IF d[Len(d)] = "followers" THEN call.outs[i][1] ELSE call.outs[i][2]
      IN /\ IsSeparatedCount(c) => got = DigitsOf(c)
         /\ IsSuffixedCount(c) => got = ThousandsOf(c)
         /\ (\A k \in 1..Len(c) : c[k] \notin DigitChars) => got = None

\* C13: first found wins.  While scrape_and_log runs, a picture URL, a
\* followers count or a following count that a strategy has found is never
\* replaced by a later strategy; the change test uses the normalized form of
\* that URL and the appended row carries those counts; and a field that every
\* strategy missed is absent: no change test without a URL, an empty ledger
\* field without a count.
C13_FirstFoundWins ==
  [][ \A p \in Procs :
        LET r  == run[p]
            r2 == run'[p]
            inside == r2.pc \notin {"returned", "main_except"}
        IN /\ (inside /\ Truthy(r.pic_url)) => r2.pic_url = r.pic_url
           /\ (inside /\ Truthy(r.followers)) => r2.followers = r.followers
           /\ (inside /\ Truthy(r.following)) => r2.following = r.following
           /\ (r.pc = "compare" /\ r2.pc # "compare") =>
                IF Truthy(r.pic_url)
                THEN r2.current_norm = normalize_url(r.pic_url)
                ELSE r2.pc = "log" /\ r2.current_norm = None
           /\ LogStep(p) =>
                /\ r2.result.followers = r.followers
                /\ r2.result.following = r.following
                /\ LastLine(ledger')[3] = (IF r.followers = None THEN <<>> ELSE r.followers)
                /\ LastLine(ledger')[4] = (IF r.following = None THEN <<>> ELSE r.following)
    ]_vars

\* Without a browser, the fetched page has given the picture URL a?c but no
\* following count, and the JSON endpoint, asked for what is missing, has
\* answered the following count 7 together with the picture URL b (the only
\* answer and the only page that say 7 carry b): the run keeps a?c.
C13_Witness ==
  \E p \in Procs :
    /\ run[p].pc = "compare" /\ BrowserFailed(p)
    /\ run[p].tried = {"http_html", "json"}
    /\ run[p].pic_url = UaQ /\ run[p].following = <<"7">>

\* The ledger field that stands for the count v of an entry: empty when no
\* strategy resolved the count, else the count's text.
StatField(v) == IF v = None THEN <<>> ELSE v

\* C14: every ledger row has the five columns in their order, and its
\* followers and following fields are, each on its own, the count the run
\* resolved, or empty (never 0) when no strategy resolved that count, whatever
\* was found for the other count and for the picture.
C14_UnresolvedStatIsEmptyField ==
  /\ \A i \in 1..Len(returned) :
       LET e    == returned[i]
           line == ledger.lines[i + 1]
       IN /\ Len(line) = Len(FIELDNAMES)
          /\ line[2] = e.username
          /\ line[3] = StatField(e.followers) /\ line[4] = StatField(e.following)
          /\ e.followers = None => line[3] = <<>> /\ line[3] # <<"0">>
          /\ e.following = None => line[4] = <<>> /\ line[4] # <<"0">>
          /\ e.followers # None => line[3] # <<>>
          /\ e.following # None => line[4] # <<>>
          /\ line[5] = <<ToString(e.is_picture_updated)>>
  /\ \A p \in Procs :
       run[p].pc = "returned" =>
         /\ LastLine(ledger)[3] = StatField(run[p].result.followers)
         /\ LastLine(ledger)[4] = StatField(run[p].result.following)

\* Two runs have returned: the first resolved the followers count alone
\* (no following count, no picture), the second the following count and the
\* picture but no followers count, and the ledger shows the gaps as empty
\* fields.
C14_Witness ==
  /\ Len(returned) = 2 /\ Len(ledger.lines) = 3
  /\ returned[1].followers # None /\ returned[1].following = None
  /\ returned[1].is_picture_updated = 0
  /\ ledger.lines[2][3] # <<>> /\ ledger.lines[2][4] = <<>>
  /\ returned[2].followers = None /\ returned[2].following # None
  /\ returned[2].is_picture_updated = 1
  /\ ledger.lines[3][3] = <<>> /\ ledger.lines[3][4] # <<>>

\* The step in which process p asks the JSON endpoint.
AsksJsonStep(p) == "json" \notin run[p].tried /\ "json" \in run'[p].tried

\* C15 as stated: the JSON endpoint is asked only when an on-page strategy
\* has already found the picture URL and the change of that URL against the
\* baseline is already confirmed, and the URL that is compared against the
\* baseline never comes from the JSON endpoint alone.
C15_JsonOnlyUpgradesConfirmedChange ==
  [][ \A p \in Procs :
        AsksJsonStep(p) =>
          /\ Truthy(run[p].pic_url)
          /\ run[p].current_norm = normalize_url(run[p].pic_url)
          /\ Changed(run[p].current_norm, run[p].last_norm)
    ]_vars

\* C15: the JSON endpoint is the last resort of the strategies, not an
\* upgrade: it is asked exactly when the picture URL, the followers count or
\* the following count is still missing after the page strategies and the
\* raw page, always before the baseline is read and the change test is made;
\* it never replaces a picture URL that was found, and the change test takes
\* whatever URL the strategies ended with, the endpoint's included.
C15_JsonIsLastResortBeforeCompare ==
  [][ \A p \in Procs :
        LET r  == run[p]
            r2 == run'[p]
        IN /\ (r.pc = "json_fallback" /\ r2.pc # "json_fallback") =>
                /\ AsksJsonStep(p) <=>
                     (~Truthy(r.pic_url) \/ ~Truthy(r.followers) \/ ~Truthy(r.following))
                /\ r2.pc = "policy"
           /\ AsksJsonStep(p) =>
                /\ r.pc = "json_fallback"
                /\ r.chain = "none" /\ r.dl = "none" /\ ~r.wrote
                /\ r.current_norm = None /\ r.last_norm = None
                /\ Truthy(r.pic_url) => r2.pic_url = r.pic_url
           /\ (r.pc = "compare" /\ r2.pc # "compare" /\ Truthy(r.pic_url)) =>
                /\ r2.current_norm = normalize_url(r.pic_url)
                /\ r2.last_norm = load_last_pic_url(baseline)
    ]_vars

\* Without a browser, the picture URL b has come from the JSON endpoint alone
\* (the only fetched page that carries b carries both counts too, and then the
\* endpoint is not asked); it was compared against the baseline, downloaded
\* and saved as the new baseline.
C15_Witness ==
  \E p \in Procs :
    /\ run[p].pc = "log" /\ BrowserFailed(p)
    /\ run[p].tried = {"http_html", "json"}
    /\ run[p].pic_url = Ub /\ run[p].wrote /\ baseline = normalize_url(Ub)

\* The picture URLs whose successful download leaves the baseline file with
\* the text file; by C1 nothing else writes the file.
SavedFrom(file) == {v \in PicUrls : save_last_pic_url(normalize_url(v)) = file}

BrowserPhase ==
  {"get", "dom_alt", "dom_header", "dom_meta", "dom_regex", "stats_dom",
   "page_source", "finally"}

\* C17: a browser that was started is released exactly once on every path
\* out of the browser phase.  The session is up only inside the browser phase,
\* and while it is up the run has made no HTTP fallback, no download and no
\* ledger or baseline write; outside the phase a run has either never had a
\* browser or has quit it, also when an exception is on its way out; and the
\* session only ever goes from absent to up (when it is built), from up to
\* quit (in the finally clause), and back to absent with the next invocation.
C17_DriverReleasedOnce ==
  /\ [] ( \A p \in Procs :
            LET r == run[p]
            IN /\ r.driver = "up" =>
                    /\ r.pc \in BrowserPhase
                    /\ r.tried \subseteq {"dom"}
                    /\ r.dl = "none" /\ ~r.wrote
                    /\ Appended(p) = <<>>
                    /\ baseline = r.base0 /\ pic_files = r.pics0
               /\ r.pc \in BrowserPhase => r.driver = "up"
               /\ r.pc \notin BrowserPhase => r.driver \in {"None", "quit"}
               /\ Escaped(p) /\ r.exc = "WebDriverException" => r.driver = "quit" )
  /\ [][ \A p \in Procs :
           LET r  == run[p]
               r2 == run'[p]
           IN r2.driver # r.driver =>
                \/ r.driver = "None" /\ r2.driver = "up" /\ r.pc = "build_driver"
                \/ r.driver = "up" /\ r2.driver = "quit" /\ r.pc = "finally"
                \/ r.driver = "quit" /\ r2.driver = "None" /\ r.pc = "done"
       ]_vars

\* The page load or a strategy has raised, the browser was quit in the finally
\* clause and the exception is on its way out of scrape_and_log.
C17_Witness ==
  \E p \in Procs :
    /\ run[p].pc = "main_except" /\ run[p].exc = "WebDriverException"
    /\ run[p].driver = "quit" /\ "dom" \in run[p].tried

\* C19: the three effects of a detected change go together.  The row a run
\* appends has is_picture_updated = 1 exactly when, in that run, the download
\* completed (the picture file named by the run's capture time is in the
\* picture directory, in full) and the baseline was written, with the
\* normalized form of the URL the run resolved; a row with 0 means that the
\* run has not written the baseline, which is as the run found it; and the
\* baseline is written by no run whose download did not complete.
C19_UpdatedFlagMeansDownloadedAndSaved ==
  [][ \A p \in Procs :
        LET r == run[p]
        IN /\ LogStep(p) =>
                /\ UpdatedField(LastLine(ledger')) \in {<<"0">>, <<"1">>}
                /\ UpdatedField(LastLine(ledger')) = <<"1">> <=>
                     (r.dl = "ok" /\ r.wrote)
                /\ UpdatedField(LastLine(ledger')) = <<"1">> =>
                     /\ [ts |-> r.ts, content |-> "full"] \in pic_files'
                     /\ baseline' = normalize_url(r.pic_url)
                     /\ baseline' = r.current_norm
                /\ UpdatedField(LastLine(ledger')) = <<"0">> =>
                     ~r.wrote /\ baseline' = r.base0
                /\ run'[p].result.is_picture_updated = r.is_updated
           /\ WritesBaseline(p) => r.dl = "ok"
    ]_vars

\* A run has downloaded the picture, replaced an older baseline and appended
\* its row with is_picture_updated = 1.
C19_Witness ==
  \E p \in Procs :
    /\ run[p].pc = "returned" /\ run[p].dl = "ok" /\ run[p].wrote
    /\ run[p].base0 # None /\ baseline # run[p].base0
    /\ UpdatedField(LastLine(ledger)) = <<"1">>

\* C18: overlapping invocations are not serialized.  An invocation can start
\* whatever the other one is doing; each reads the baseline when it reaches
\* its own change test and takes what the file holds at that moment; each
\* that has downloaded writes the baseline with its own normalized URL
\* without looking at the file again, so the file holds what the last writer
\* wrote; and each records is_picture_updated = 1 exactly when it has written.
C18_InvocationsAreNotSerialized ==
  /\ [] ( \A p \in procs :
            (run[p].pc \in {"idle", "done"} /\ clock < MaxRuns) => ENABLED Start(p) )
  /\ [][ \A p \in Procs :
           LET r  == run[p]
               r2 == run'[p]
           IN /\ (r.pc = "compare" /\ r2.pc # "compare" /\ Truthy(r.pic_url)) =>
                   /\ r2.last_norm = load_last_pic_url(baseline)
                   /\ r2.pc = "download" <=> r2.current_norm # r2.last_norm
              /\ WritesBaseline(p) =>
                   r.dl = "ok" /\ baseline' = save_last_pic_url(r.current_norm)
              /\ baseline' # baseline => \E q \in Procs : WritesBaseline(q)
              /\ LogStep(p) =>
                   (UpdatedField(LastLine(ledger')) = <<"1">> <=> r.wrote)
       ]_vars

\* Both invocations have read the baseline before either wrote it (neither
\* found a file), have resolved the same picture URL b, have downloaded it and
\* written the baseline, and stand before log_to_csv with is_updated = 1: the
\* one change is about to be recorded by two rows.
C18_Witness ==
  /\ \A p \in Procs :
       /\ run[p].pc = "log" /\ run[p].pic_url = Ub
       /\ run[p].last_norm = None /\ run[p].current_norm = normalize_url(Ub)
       /\ run[p].dl = "ok" /\ run[p].wrote /\ run[p].is_updated = 1
  /\ baseline = normalize_url(Ub)

====
